---- MODULE Spec2Model ----
(***************************************************************************)
(* PagerDutyClient (mai_util/pagerduty_client/client.py).                  *)
(*                                                                         *)
(* A client object is built once (the routing key is read from the secret  *)
(* store) and then serves trigger_incident / resolve_incident calls, each  *)
(* of which builds a JSON body and POSTs it at most once.                  *)
(*                                                                         *)
(* Python values are records [t, v]: t is the Python type, v the value.    *)
(* A Python string is a sequence of symbols; a string literal of the code  *)
(* is a one-symbol string.  The symbols " " and "\n" are whitespace.       *)
(***************************************************************************)
EXTENDS Integers, Sequences, FiniteSets, TLC

VARIABLES
    store,        \* what the secret store answered at construction
    init_raised,  \* TRUE iff the constructor let an exception escape
    gcp_project,  \* self.gcp_project
    routing_key,  \* self.routing_key
    posts,        \* the JSON bodies handed to requests.post, in order
    ncalls,       \* number of trigger_incident / resolve_incident calls made
    last          \* the last call: operation, arguments, exchange, outcome

vars == <<store, init_raised, gcp_project, routing_key, posts, ncalls, last>>

\* Number of calls made on one client.
MaxCalls == 2

(***************************************************************************)
(* Python values                                                           *)
(***************************************************************************)
PyNone == [t |-> "None", v |-> <<>>]
PyStr(s) == [t |-> "str", v |-> s]
PyBool(b) == [t |-> "bool", v |-> b]
PyList(s) == [t |-> "list", v |-> s]
PyDict(f) == [t |-> "dict", v |-> f]

\* Python truth value testing, as used by `not x`, `if x:` and `x or y`.
Truthy(x) ==
    CASE x.t = "None" -> FALSE
      [] x.t = "bool" -> x.v
      [] x.t = "str"  -> Len(x.v) > 0
      [] x.t = "list" -> Len(x.v) > 0
      [] x.t = "dict" -> DOMAIN x.v # {}

\* Variant: no fallback to the right operand.
Or_left(a, b) == a

\* Python `a or b`.
Or(a, b) == IF Truthy(a) THEN a ELSE b

\* dict.get(key): the value, or None when the key is missing.
dict_get(d, key) == IF key \in DOMAIN d.v THEN d.v[key] ELSE PyNone

Whitespace == {" ", "\n"}

RECURSIVE lstrip(_)
lstrip(s) == IF s # <<>> /\ Head(s) \in Whitespace THEN lstrip(Tail(s)) ELSE s

RECURSIVE rstrip(_)
rstrip(s) ==
    IF s # <<>> /\ s[Len(s)] \in Whitespace
    THEN rstrip(SubSeq(s, 1, Len(s) - 1))
    ELSE s

\* str.strip()
strip(s) == rstrip(lstrip(s))

(***************************************************************************)
(* The two collaborators: what they can answer                             *)
(***************************************************************************)
\* Secret store: the client or the access call raises, the payload is not
\* valid UTF-8 (decode raises), or the payload decodes to a string.
StoreOutcomes ==
    {[kind |-> "raise", data |-> <<>>], [kind |-> "undecodable", data |-> <<>>]}
    \cup {[kind |-> "value", data |-> d] :
            d \in {<<" ">>, <<"k">>, <<" ", "k", "\n">>}}

\* Body of an HTTP response as response.json() sees it: not JSON (json()
\* raises; requests >= 2.27 raises its own JSONDecodeError, a
\* RequestException, older releases raise a ValueError), or a JSON value.
Bodies ==
    {[json |-> FALSE, value |-> PyNone, raises |-> e] :
        e \in {"RequestException", "ValueError"}}
    \cup {[json |-> TRUE, value |-> x, raises |-> "none"] :
            x \in {PyList(<<>>),
                   PyDict(<<>>),
                   PyDict("dedup_key" :> PyStr(<<>>)),
                   PyDict("dedup_key" :> PyStr(<<"K">>))}}

Statuses == {202, 304, 404}

NotSent == [kind |-> "none", status |-> 0, body |-> [json |-> FALSE, value |-> PyNone, raises |-> "none"]]

\* requests.post: raises a RequestException (connection error, timeout), or
\* returns a response.
NetOutcomes ==
    {[kind |-> "error", status |-> 0, body |-> NotSent.body]}
    \cup {[kind |-> "response", status |-> s, body |-> b] : s \in Statuses, b \in Bodies}

\* Variant: only server errors (5xx) raise.
raise_for_status_5xx(status) == 500 <= status /\ status < 600

\* Response.raise_for_status(): raises HTTPError for 4xx and 5xx.
raise_for_status(status) == 400 <= status /\ status < 600

(***************************************************************************)
(* PagerDutyClient                                                         *)
(***************************************************************************)
\* Variant: no try/except around the secret lookup.
PagerDutyClient_init_no_try(project, answer) ==
    IF answer.kind = "value"
    THEN [raised |-> FALSE, gcp_project |-> project,
          routing_key |-> PyStr(strip(answer.data))]
    ELSE [raised |-> TRUE, gcp_project |-> project, routing_key |-> PyNone]

\* Variant: the decoded secret is stored without .strip().
PagerDutyClient_init_no_strip(project, answer) ==
    IF answer.kind = "value"
    THEN [raised |-> FALSE, gcp_project |-> project,
          routing_key |-> PyStr(answer.data)]
    ELSE [raised |-> FALSE, gcp_project |-> project, routing_key |-> PyNone]

\* __init__: [raised, gcp_project, routing_key]
PagerDutyClient_init(project, answer) ==
    IF answer.kind = "value"
    THEN [raised |-> FALSE, gcp_project |-> project,
          routing_key |-> PyStr(strip(answer.data))]
    ELSE [raised |-> FALSE, gcp_project |-> project, routing_key |-> PyNone]

\* Outcome of a call: new self, the bodies POSTed, return value or exception,
\* and the levels of the lines logged.
Return(self, sent, value, logged) ==
    [self |-> self, sent |-> sent, raised |-> FALSE, value |-> value, logged |-> logged]

Raise(self, sent, exc, logged) ==
    [self |-> self, sent |-> sent, raised |-> TRUE, value |-> PyStr(<<exc>>), logged |-> logged]

\* Variant: optional fields are tested with `is not None`.
trigger_payload_is_not_none(self, args) ==
    LET inner == ("summary" :> args.summary
                  @@ "severity" :> args.severity
                  @@ "source" :> args.source)
        inner2 == IF args.custom_details.t # "None"
                  THEN ("custom_details" :> args.custom_details) @@ inner
                  ELSE inner
        outer == ("routing_key" :> self.routing_key
                  @@ "event_action" :> PyStr(<<"trigger">>)
                  @@ "payload" :> PyDict(inner2))
    IN  PyDict(IF args.dedup_key.t # "None"
               THEN ("dedup_key" :> args.dedup_key) @@ outer
               ELSE outer)

\* The body trigger_incident builds.
trigger_payload(self, args) ==
    LET inner == ("summary" :> args.summary
                  @@ "severity" :> args.severity
                  @@ "source" :> args.source)
        inner2 == IF Truthy(args.custom_details)
                  THEN ("custom_details" :> args.custom_details) @@ inner
                  ELSE inner
        outer == ("routing_key" :> self.routing_key
                  @@ "event_action" :> PyStr(<<"trigger">>)
                  @@ "payload" :> PyDict(inner2))
    IN  PyDict(IF Truthy(args.dedup_key)
               THEN ("dedup_key" :> args.dedup_key) @@ outer
               ELSE outer)

trigger_incident(self, args, net) ==
    IF ~Truthy(self.routing_key)
    THEN Return(self, <<>>, PyNone, <<"error">>)
    ELSE LET payload == trigger_payload(self, args) IN
         IF net.kind = "error"
         THEN Return(self, <<payload>>, PyNone, <<"error">>)
         ELSE IF raise_for_status(net.status)
         THEN Return(self, <<payload>>, PyNone, <<"error", "error">>)
         ELSE IF ~net.body.json
         THEN IF net.body.raises = "RequestException"
              THEN Return(self, <<payload>>, PyNone, <<"error">>)
              ELSE Raise(self, <<payload>>, net.body.raises, <<>>)
         ELSE IF net.body.value.t # "dict"
         THEN Raise(self, <<payload>>, "AttributeError", <<>>)
         ELSE LET incident_key ==
                    Or(dict_get(net.body.value, "dedup_key"), args.dedup_key)
              IN  Return(self, <<payload>>, incident_key, <<"info">>)

\* The body resolve_incident builds.
resolve_payload(self, args) ==
    LET outer == ("routing_key" :> self.routing_key
                  @@ "event_action" :> PyStr(<<"resolve">>)
                  @@ "dedup_key" :> args.dedup_key)
    IN  PyDict(IF Truthy(args.summary)
               THEN ("payload" :> PyDict("summary" :> args.summary)) @@ outer
               ELSE outer)

\* Variant: the routing-key guard is missing.
resolve_incident_unguarded(self, args, net) ==
    LET payload == resolve_payload(self, args) IN
    IF net.kind = "error"
    THEN Return(self, <<payload>>, PyBool(FALSE), <<"error">>)
    ELSE IF raise_for_status(net.status)
    THEN Return(self, <<payload>>, PyBool(FALSE), <<"error", "error">>)
    ELSE Return(self, <<payload>>, PyBool(TRUE), <<"info">>)

\* Variant: a failed exchange drops the cached routing key.
resolve_incident_clears_key(self, args, net) ==
    IF ~Truthy(self.routing_key)
    THEN Return(self, <<>>, PyBool(FALSE), <<"error">>)
    ELSE LET payload == resolve_payload(self, args)
             cleared == [self EXCEPT !.routing_key = PyNone] IN
         IF net.kind = "error"
         THEN Return(cleared, <<payload>>, PyBool(FALSE), <<"error">>)
         ELSE IF raise_for_status(net.status)
         THEN Return(cleared, <<payload>>, PyBool(FALSE), <<"error", "error">>)
         ELSE Return(self, <<payload>>, PyBool(TRUE), <<"info">>)

\* Variant: a request that raised is sent a second time.
resolve_incident_retry(self, args, net) ==
    IF ~Truthy(self.routing_key)
    THEN Return(self, <<>>, PyBool(FALSE), <<"error">>)
    ELSE LET payload == resolve_payload(self, args) IN
         IF net.kind = "error"
         THEN Return(self, <<payload, payload>>, PyBool(FALSE), <<"error">>)
         ELSE IF raise_for_status(net.status)
         THEN Return(self, <<payload>>, PyBool(FALSE), <<"error", "error">>)
         ELSE Return(self, <<payload>>, PyBool(TRUE), <<"info">>)

resolve_incident(self, args, net) ==
    IF ~Truthy(self.routing_key)
    THEN Return(self, <<>>, PyBool(FALSE), <<"error">>)
    ELSE LET payload == resolve_payload(self, args) IN
         IF net.kind = "error"
         THEN Return(self, <<payload>>, PyBool(FALSE), <<"error">>)
         ELSE IF raise_for_status(net.status)
         THEN Return(self, <<payload>>, PyBool(FALSE), <<"error", "error">>)
         ELSE Return(self, <<payload>>, PyBool(TRUE), <<"info">>)

(***************************************************************************)
(* Arguments the callers pass                                              *)
(***************************************************************************)
Projects == {PyStr(<<"test-project">>)}

OptDedupKeys == {PyNone, PyStr(<<>>), PyStr(<<"D">>)}

TriggerArgs ==
    [summary : {PyStr(<<"Alert">>)},
     severity : {PyStr(<<"error">>), PyStr(<<"critical">>)},
     source : {PyStr(<<"mai-service">>)},
     custom_details : {PyNone, PyDict(<<>>), PyDict("error" :> PyStr(<<"m">>))},
     dedup_key : OptDedupKeys]

ResolveArgs ==
    [dedup_key : {PyStr(<<"D">>), PyStr(<<"E">>)},
     summary : {PyNone, PyStr(<<>>), PyStr(<<"done">>)}]

(***************************************************************************)
(* State machine                                                           *)
(***************************************************************************)
NoCall == [op |-> "__init__", args |-> <<>>, net |-> NotSent,
           raised |-> FALSE, value |-> PyNone, logged |-> <<>>]

Self == [gcp_project |-> gcp_project, routing_key |-> routing_key]

Init ==
    /\ store \in StoreOutcomes
    /\ \E project \in Projects :
         LET c == PagerDutyClient_init(project, store) IN
           /\ init_raised = c.raised
           /\ gcp_project = c.gcp_project
           /\ routing_key = c.routing_key
    /\ posts = <<>>
    /\ ncalls = 0
    /\ last = NoCall

\* One call: r is its outcome, net the exchange the transport was ready to give.
Call(op, args, net, r) ==
    /\ gcp_project' = r.self.gcp_project
    /\ routing_key' = r.self.routing_key
    /\ posts' = posts \o r.sent
    /\ ncalls' = ncalls + 1
    /\ last' = [op |-> op, args |-> args,
                net |-> IF r.sent = <<>> THEN NotSent ELSE net,
                raised |-> r.raised, value |-> r.value, logged |-> r.logged]
    /\ UNCHANGED <<store, init_raised>>

TriggerIncident ==
    /\ ~init_raised
    /\ ncalls < MaxCalls
    /\ \E args \in TriggerArgs, net \in NetOutcomes :
         Call("trigger_incident", args, net, trigger_incident(Self, args, net))

ResolveIncident ==
    /\ ~init_raised
    /\ ncalls < MaxCalls
    /\ \E args \in ResolveArgs, net \in NetOutcomes :
         Call("resolve_incident", args, net, resolve_incident(Self, args, net))

Next == TriggerIncident \/ ResolveIncident

Spec == Init /\ [][Next]_vars


(***************************************************************************)
(* Vocabulary of the properties                                            *)
(***************************************************************************)
IsTrigger == last.op = "trigger_incident"
IsResolve == last.op = "resolve_incident"
IsCall == IsTrigger \/ IsResolve

\* The last call handed a body to requests.post.
Sent == last.net.kind # "none"
NetworkError == last.net.kind = "error"
GotResponse == last.net.kind = "response"
Is2xx == GotResponse /\ 200 <= last.net.status /\ last.net.status < 300
IsErrorStatus == GotResponse /\ 400 <= last.net.status /\ last.net.status < 600

ReturnedNone == ~last.raised /\ last.value.t = "None"
ReturnedBool(b) == ~last.raised /\ last.value.t = "bool" /\ last.value.v = b
\* None for trigger_incident, False for resolve_incident.
ReturnedSentinel == IF IsTrigger THEN ReturnedNone ELSE ReturnedBool(FALSE)

\* The body of the last request.
LastBody == posts[Len(posts)].v
NotNone(x) == x.t # "None"

(***************************************************************************)
(* C1                                                                      *)
(***************************************************************************)
NeverThrows(TransportFailed) ==
    /\ ~init_raised
    /\ store.kind = "raise" => routing_key = PyNone
    /\ IsCall /\ routing_key = PyNone => ReturnedSentinel
    /\ IsCall /\ TransportFailed => ReturnedSentinel

\* C1 as stated: construction never raises and leaves the key None when the
\* secret store raised; with the key None, and whenever the POST raised or
\* the response was not 2xx, the call returns its sentinel.
C1_NeverThrowsNon2xx == NeverThrows(NetworkError \/ (GotResponse /\ ~Is2xx))

\* C1 amended: as above, with the failed responses being those with a 4xx or
\* 5xx status (the ones raise_for_status rejects).
C1_NeverThrows == NeverThrows(NetworkError \/ IsErrorStatus)

C1_Witness ==
    /\ store.kind = "value" /\ Truthy(routing_key)
    /\ IsTrigger /\ IsErrorStatus /\ ReturnedNone
    /\ ncalls >= 2

(***************************************************************************)
(* C2                                                                      *)
(***************************************************************************)
\* C2: while the routing key is absent (None, or empty), no request has been
\* issued and every call made returned its sentinel.
C2_AbsentKeyNoPost ==
    ~Truthy(routing_key) => posts = <<>> /\ (IsCall => ReturnedSentinel /\ ~Sent)

C2_Witness ==
    /\ routing_key = PyNone
    /\ ncalls >= 2 /\ IsResolve /\ ReturnedBool(FALSE) /\ posts = <<>>

(***************************************************************************)
(* C3                                                                      *)
(***************************************************************************)
ResponseObject == Sent /\ GotResponse /\ last.net.body.json /\ last.net.body.value.t = "dict"
ResponseKey == last.net.body.value.v["dedup_key"]
ResponseHasKey == "dedup_key" \in DOMAIN last.net.body.value.v

TriggerReturns(HasOne) ==
    IsTrigger /\ Is2xx /\ ResponseObject =>
        /\ ~last.raised
        /\ last.value = IF HasOne THEN ResponseKey ELSE last.args.dedup_key
        /\ NotNone(last.args.dedup_key) => NotNone(last.value)

\* C3 as stated: on a 2xx JSON-object response trigger_incident returns the
\* response's dedup_key if the response has that field, else the argument.
C3_ResponseKeyIfPresent == TriggerReturns(ResponseHasKey)

\* C3 amended: the response's dedup_key is returned if the response has one
\* that is not empty; otherwise the dedup_key argument is returned, and a
\* caller that passed a dedup_key never gets None back.
C3_ResponseKeyOrFallback ==
    TriggerReturns(ResponseHasKey /\ ResponseKey.t = "str" /\ ResponseKey.v # <<>>)

C3_Witness ==
    /\ IsTrigger /\ Is2xx /\ ResponseObject
    /\ ResponseHasKey /\ ResponseKey = PyStr(<<>>)
    /\ last.args.dedup_key = PyStr(<<"D">>) /\ last.value = PyStr(<<"D">>)

(***************************************************************************)
(* C4                                                                      *)
(***************************************************************************)
\* C4 as stated: trigger_incident returns None exactly when the call failed
\* (routing key absent, network error, or a non-2xx response).
C4_NoneIffFailed ==
    IsTrigger => (ReturnedNone <=> (~Sent \/ NetworkError \/ (GotResponse /\ ~Is2xx)))

(***************************************************************************)
(* C5                                                                      *)
(***************************************************************************)
ResolveResult(Succeeded) ==
    IsResolve /\ Truthy(routing_key) =>
        /\ Sent
        /\ Succeeded => ReturnedBool(TRUE)
        /\ ~Succeeded => ReturnedBool(FALSE)

\* C5 as stated: with the key present resolve_incident returns True iff the
\* POST completed with a 2xx status, and False otherwise.
C5_TrueIff2xx == ResolveResult(Is2xx)

\* C5 amended: with the key present resolve_incident returns True iff the
\* POST completed with a status that is not 4xx or 5xx, whatever the body;
\* it returns False for a network error, a timeout and every 4xx/5xx status.
C5_TrueIffNoErrorStatus == ResolveResult(GotResponse /\ ~IsErrorStatus)

C5_Witness ==
    /\ IsResolve /\ Truthy(routing_key) /\ Is2xx
    /\ ~last.net.body.json /\ ReturnedBool(TRUE)

(***************************************************************************)
(* C6                                                                      *)
(***************************************************************************)
\* C6: no step after construction writes routing_key or gcp_project.
C6_KeyWrittenOnce ==
    [][routing_key' = routing_key /\ gcp_project' = gcp_project]_vars

C6_Witness ==
    /\ Truthy(routing_key) /\ gcp_project \in Projects
    /\ ncalls >= 2 /\ Len(posts) >= 2
    /\ posts[1].v["event_action"] # posts[2].v["event_action"]
    /\ IsResolve /\ NetworkError /\ ReturnedBool(FALSE)

(***************************************************************************)
(* C7                                                                      *)
(***************************************************************************)
\* C7: with the key present every call issued exactly one POST: after n
\* calls n bodies were posted, failed attempts and repeated keys included.
C7_OnePostPerCall ==
    Truthy(routing_key) => Len(posts) = ncalls /\ (IsCall => Sent)

C7_Witness ==
    /\ Truthy(routing_key) /\ ncalls = 2 /\ Len(posts) = 2
    /\ posts[1] = posts[2]
    /\ posts[2].v["event_action"] = PyStr(<<"resolve">>)
    /\ IsResolve /\ NetworkError

(***************************************************************************)
(* C8                                                                      *)
(***************************************************************************)
RequestBody(Passed(_)) ==
    IsCall /\ Sent =>
        /\ LastBody["routing_key"] = routing_key
        /\ IsTrigger =>
            LET inner == LastBody["payload"].v IN
            /\ LastBody["event_action"] = PyStr(<<"trigger">>)
            /\ inner["summary"] = last.args.summary
            /\ inner["severity"] = last.args.severity
            /\ inner["source"] = last.args.source
            /\ DOMAIN inner \subseteq {"summary", "severity", "source", "custom_details"}
            /\ "custom_details" \in DOMAIN inner <=> Passed(last.args.custom_details)
            /\ "custom_details" \in DOMAIN inner =>
                   inner["custom_details"] = last.args.custom_details
            /\ DOMAIN LastBody \subseteq {"routing_key", "event_action", "payload", "dedup_key"}
            /\ "dedup_key" \in DOMAIN LastBody <=> Passed(last.args.dedup_key)
            /\ "dedup_key" \in DOMAIN LastBody =>
                   LastBody["dedup_key"] = last.args.dedup_key
        /\ IsResolve =>
            /\ LastBody["event_action"] = PyStr(<<"resolve">>)
            /\ LastBody["dedup_key"] = last.args.dedup_key
            /\ DOMAIN LastBody \subseteq {"routing_key", "event_action", "payload", "dedup_key"}
            /\ "payload" \in DOMAIN LastBody <=> Passed(last.args.summary)
            /\ "payload" \in DOMAIN LastBody =>
                   /\ DOMAIN LastBody["payload"].v = {"summary"}
                   /\ LastBody["payload"].v["summary"] = last.args.summary

\* C8 as stated: the body carries the required fields unchanged and each
\* optional field exactly when its argument was passed (is not None).
C8_OptionalIffNotNone == RequestBody(NotNone)

\* C8 amended: the body carries the required fields unchanged and each
\* optional field exactly when its argument is neither None nor empty.
C8_OptionalIffNonEmpty == RequestBody(Truthy)

C8_Witness ==
    /\ IsTrigger /\ Sent
    /\ last.args.custom_details = PyDict("error" :> PyStr(<<"m">>))
    /\ last.args.dedup_key = PyStr(<<"D">>)
    /\ DOMAIN LastBody = {"routing_key", "event_action", "payload", "dedup_key"}
    /\ "custom_details" \in DOMAIN LastBody["payload"].v

(***************************************************************************)
(* C9                                                                      *)
(***************************************************************************)
\* Every call made so far reached the transport with the trimmed secret.
CallsReachTransport ==
    /\ Len(posts) = ncalls
    /\ \A i \in 1..Len(posts) : posts[i].v["routing_key"] = PyStr(strip(store.data))

\* C9 as stated: when the store answers with a value the key is the trimmed
\* value and every call reaches the transport with it; the key is None only
\* if the lookup failed.
C9_ValueMeansPresent ==
    /\ store.kind = "value" =>
           routing_key = PyStr(strip(store.data)) /\ CallsReachTransport
    /\ routing_key = PyNone => store.kind # "value"

\* C9 amended: when the store answers with a value the key is the trimmed
\* value; if the trimmed value is not empty every call reaches the transport
\* with it, and if it is empty no call does.  The key is None exactly when
\* the lookup or the decoding raised.
C9_NonEmptyValueMeansPresent ==
    /\ store.kind = "value" =>
           /\ routing_key = PyStr(strip(store.data))
           /\ strip(store.data) # <<>> => CallsReachTransport
           /\ strip(store.data) = <<>> => posts = <<>>
    /\ routing_key = PyNone <=> store.kind # "value"

C9_Witness ==
    /\ store.kind = "value" /\ store.data # strip(store.data)
    /\ strip(store.data) # <<>>
    /\ ncalls >= 2 /\ Len(posts) = ncalls /\ IsTrigger

(***************************************************************************)
(* C10                                                                     *)
(***************************************************************************)
\* C10 as stated: with the key present trigger_incident always returns a
\* string or None; no exception reaches the caller.
C10_TriggerNeverRaises ==
    IsTrigger /\ Truthy(routing_key) =>
        ~last.raised /\ last.value.t \in {"str", "None"}
====
